---- MODULE Spec2Model ----
(***************************************************************************)
(* Model of libbrz/src/render.rs: Coord / Rect arithmetic, the Renderer    *)
(* trait's default print, and the View adapter.                            *)
(*                                                                         *)
(* usize / isize are modelled with Bits bits.  `+` on usize and isize      *)
(* panics on overflow when the crate is built with overflow checks (the    *)
(* debug profile) and wraps otherwise (the release profile); `build`       *)
(* records which of the two the program was built as.                      *)
(***************************************************************************)
EXTENDS Integers, Sequences, FiniteSets

\* ---------------------------------------------------------------- bounds
\* width of usize and isize in bits
Bits == 3
\* view rects and local coordinates take their fields in 0 .. Small and MAX
Small == 1
\* longest text printed, in code points
MaxLen == 2
\* longest chain of nested views
MaxDepth == 2
\* largest width and height of the backend whose dimensions_rect is split
MaxDim == 3

RECURSIVE Pow2(_)
Pow2(n) == IF n = 0 THEN 1 ELSE 2 * Pow2(n - 1)

Modulus == Pow2(Bits)
MAX == Modulus - 1
IMax == (Modulus \div 2) - 1
IMin == -(Modulus \div 2)

USize == 0 .. MAX
ISize == IMin .. IMax
Builds == {"debug", "release"}

VARIABLES build, lhs, rhs, rect, parts, rootDims, views, op, out, calls

vars == <<build, lhs, rhs, rect, parts, rootDims, views, op, out, calls>>

\* ------------------------------------------------------- outcome of a call
Ok(v) == [panic |-> FALSE, val |-> v]
Panicked == [panic |-> TRUE, val |-> 0]
NoOp == [name |-> "none"]
Min(x, y) == IF x < y THEN x ELSE y

\* ------------------------------------------------------ machine integers
\* usize + usize
UAdd(x, y) ==
  IF x + y <= MAX THEN Ok(x + y)
  ELSE IF build = "debug" THEN Panicked
  ELSE Ok((x + y) % Modulus)

\* isize + isize
IAdd(s, t) ==
  IF s + t >= IMin /\ s + t <= IMax THEN Ok(s + t)
  ELSE IF build = "debug" THEN Panicked
  ELSE Ok(((s + t - IMin + 2 * Modulus) % Modulus) + IMin)

\* usize as isize
AsISize(u) == IF u > IMax THEN u - Modulus ELSE u

\* isize as usize
AsUSize(s) == (s + Modulus) % Modulus

\* usize::saturating_add
saturating_add(x, y) == Min(x + y, MAX)

\* ------------------------------------------------------------ Coord, Style
Coord(cx, cy) == [x |-> cx, y |-> cy]
Coords == [x : USize, y : USize]

Styles == {[fg |-> 0, bg |-> 0, style |-> 0], [fg |-> 7, bg |-> 1, style |-> 2]}
Chars == {"a", "b"}

\* texts of at most MaxLen code points
Texts == UNION {[1 .. n -> Chars] : n \in 0 .. MaxLen}

\* impl Add<Coord> for Coord: y is computed first, then x, both with `+`
CoordAdd(self, other) ==
  LET ny == UAdd(self.y, other.y)
      nx == UAdd(self.x, other.x)
  IN IF ny.panic \/ nx.panic THEN Panicked
     ELSE Ok([x |-> nx.val, y |-> ny.val])

add_x(self, n) == [self EXCEPT !.x = saturating_add(self.x, n)]

add_y(self, n) == [self EXCEPT !.y = saturating_add(self.y, n)]

center(self) == [x |-> self.x \div 2, y |-> self.y \div 2]

\* variant: the bound itself counts as inside
is_inside_dimensions_le(self, other) == self.y <= other.y /\ self.x <= other.x

is_inside_dimensions(self, other) == self.y < other.y /\ self.x < other.x

\* variant: the test is made against the far corner of the placed rect
is_inside_placed(self, r) ==
  /\ self.y < r.offset.y + r.dimensions.y
  /\ self.x < r.offset.x + r.dimensions.x

is_inside(self, r) == is_inside_dimensions(self, r.dimensions)

\* -------------------------------------------------------------------- Rect
Rect(off, dims) == [offset |-> off, dimensions |-> dims]

\* the branch that turns the signed argument into the unsigned split index
ResolveIndex(dim, i) ==
  IF i < 0 THEN
    LET s == IAdd(AsISize(dim), i)
    IN IF s.panic THEN Panicked ELSE Ok(AsUSize(s.val))
  ELSE IF i > 0 THEN Ok(i)
  ELSE Panicked

\* variant: an index equal to the dimension passes
SplitAssert_le(idx, dim) == idx <= dim

\* assert!(x < self.dimensions.x)
SplitAssert(idx, dim) == idx < dim

\* variant: the second rect is not advanced along the split axis
split_verticaly_at_same_offset(self, i) ==
  LET idx == ResolveIndex(self.dimensions.x, i)
  IN IF idx.panic THEN Panicked
     ELSE IF ~SplitAssert(idx.val, self.dimensions.x) THEN Panicked
     ELSE Ok(<<Rect(self.offset, Coord(idx.val, self.dimensions.y)),
               Rect(self.offset,
                    Coord(self.dimensions.x - idx.val, self.dimensions.y))>>)

split_verticaly_at(self, i) ==
  LET idx == ResolveIndex(self.dimensions.x, i)
  IN IF idx.panic THEN Panicked
     ELSE IF ~SplitAssert(idx.val, self.dimensions.x) THEN Panicked
     ELSE LET ox == UAdd(self.offset.x, idx.val)
          IN IF ox.panic THEN Panicked
             ELSE Ok(<<Rect(self.offset, Coord(idx.val, self.dimensions.y)),
                       Rect(Coord(ox.val, self.offset.y),
                            Coord(self.dimensions.x - idx.val, self.dimensions.y))>>)

split_horizontaly_at(self, i) ==
  LET idx == ResolveIndex(self.dimensions.y, i)
  IN IF idx.panic THEN Panicked
     ELSE IF ~SplitAssert(idx.val, self.dimensions.y) THEN Panicked
     ELSE LET oy == UAdd(self.offset.y, idx.val)
          IN IF oy.panic THEN Panicked
             ELSE Ok(<<Rect(self.offset, Coord(self.dimensions.x, idx.val)),
                       Rect(Coord(self.offset.x, oy.val),
                            Coord(self.dimensions.x, self.dimensions.y - idx.val))>>)

dimensions_rect(dims) == Rect(Coord(0, 0), dims)

\* ---------------------------------------------------------- Renderer, View
\* A renderer is a chain of views over the root backend (impl Renderer for
\* &mut T forwards every method unchanged, so a borrow of a renderer is that
\* renderer): chain[1] wraps the
\* root, chain[k + 1] wraps chain[k].  Level 0 is the root backend, a
\* recording test double: its put / set_cursor append the call they receive.
\* Every call returns [panic, calls]: whether it unwound with a panic, and
\* the calls that reached the root backend before it returned or unwound.
PutCall(coord, ch, style) == [fn |-> "put", coord |-> coord, ch |-> ch, style |-> style]
CursorCall(c) == [fn |-> "set_cursor", coord |-> c]
Done(cs) == [panic |-> FALSE, calls |-> cs]
Unwound(cs) == [panic |-> TRUE, calls |-> cs]

None == [some |-> FALSE, val |-> 0]
Some(c) == [some |-> TRUE, val |-> c]

\* Rect::to_renderer: the view's rect is self, its backend the given chain
to_renderer(self, chain) == Append(chain, self)

\* Renderer::dimensions: rect.dimensions for a View, the surface's for the root
dimensions(chain, level, dims) ==
  IF level = 0 THEN dims ELSE chain[level].dimensions

\* View::put (level > 0) over the backend's put
RECURSIVE put(_, _, _, _, _)
put(chain, level, coord, ch, style) ==
  IF level = 0 THEN Done(<<PutCall(coord, ch, style)>>)
  ELSE IF is_inside(coord, chain[level]) THEN
    LET c == CoordAdd(coord, chain[level].offset)
    IN IF c.panic THEN Unwound(<<>>)
       ELSE put(chain, level - 1, c.val, ch, style)
  ELSE Done(<<>>)

\* View::set_cursor (level > 0) over the backend's set_cursor
RECURSIVE set_cursor(_, _, _)
set_cursor(chain, level, coord) ==
  IF level = 0 THEN Done(<<CursorCall(coord)>>)
  ELSE IF coord.some THEN
    LET c == CoordAdd(coord.val, chain[level].offset)
    IN IF c.panic THEN Unwound(<<>>)
       ELSE set_cursor(chain, level - 1, Some(c.val))
  ELSE set_cursor(chain, level - 1, None)

\* the loop of Renderer::print from character i (1-based) on, given the
\* calls made so far
RECURSIVE PrintLoop(_, _, _, _, _, _, _, _)
PrintLoop(chain, level, dims, coord, text, style, i, acc) ==
  IF i > Len(text) THEN Done(acc)
  ELSE LET c == add_x(coord, i - 1)
       IN IF ~is_inside_dimensions(c, dims) THEN Done(acc)
          ELSE LET p == put(chain, level, c, text[i], style)
               IN IF p.panic THEN Unwound(acc \o p.calls)
                  ELSE PrintLoop(chain, level, dims, coord, text, style,
                                 i + 1, acc \o p.calls)

\* Renderer::print, the default method
print(chain, level, dims, coord, text, style) ==
  PrintLoop(chain, level, dimensions(chain, level, dims), coord, text, style, 1, <<>>)

\* ------------------------------------------------------------ input sets
\* coordinates near both ends of usize
EdgeVals == {0, 1, MAX - 1, MAX}
Vals == (0 .. Small) \cup {MAX}
ValCoords == [x : Vals, y : Vals]
ViewRects == [offset : ValCoords, dimensions : ValCoords]
PrintCoords == [x : USize, y : EdgeVals]
SplitRects == [offset : [x : EdgeVals, y : EdgeVals], dimensions : Coords]
\* in chains of views the rows stay small; the columns also take MAX
NestCoords == [x : Vals, y : 0 .. Small]
NestRects == [offset : NestCoords, dimensions : NestCoords]
DefaultStyle == [fg |-> 0, bg |-> 0, style |-> 0]

RECURSIVE ChainsOfLen(_)
ChainsOfLen(n) ==
  IF n = 0 THEN {<<>>}
  ELSE {to_renderer(r, c) : r \in NestRects, c \in ChainsOfLen(n - 1)}

Chains == UNION {ChainsOfLen(n) : n \in 0 .. MaxDepth}
SibVals == (0 .. MaxDim) \cup {MAX}
SibCoords == [x : SibVals, y : SibVals]
RootDims == [x : 0 .. MaxDim, y : 0 .. MaxDim]
\* texts that repeat one character
Runs == {t \in Texts : \A i \in 1 .. Len(t) : t[i] = "a"}

Zero == Coord(0, 0)
ZeroRect == Rect(Zero, Zero)
Running == out.panic = FALSE
Idle == Running /\ op.name = "none"

\* a call that did not panic returns to its caller
Return ==
  /\ Running
  /\ op.name # "none"
  /\ op' = NoOp
  /\ calls' = <<>>
  /\ UNCHANGED <<build, lhs, rhs, rect, parts, rootDims, views, out>>

\* ------------------------------------------------- Coord arithmetic (pure)
InitAdd ==
  /\ build \in Builds
  /\ lhs \in Coords
  /\ rhs \in Coords
  /\ rect = ZeroRect /\ parts = <<>> /\ rootDims = Zero /\ views = <<>>
  /\ op = NoOp /\ out = Ok(0) /\ calls = <<>>

\* lhs + rhs
Add ==
  /\ op.name = "none"
  /\ op' = [name |-> "add"]
  /\ out' = CoordAdd(lhs, rhs)
  /\ UNCHANGED <<build, lhs, rhs, rect, parts, rootDims, views, calls>>

\* lhs.add_x(n)
AddX(n) ==
  /\ op.name = "none"
  /\ op' = [name |-> "add_x", n |-> n]
  /\ out' = Ok(add_x(lhs, n))
  /\ UNCHANGED <<build, lhs, rhs, rect, parts, rootDims, views, calls>>

\* lhs.add_y(n)
AddY(n) ==
  /\ op.name = "none"
  /\ op' = [name |-> "add_y", n |-> n]
  /\ out' = Ok(add_y(lhs, n))
  /\ UNCHANGED <<build, lhs, rhs, rect, parts, rootDims, views, calls>>

NextAdd ==
  \/ Add
  \/ \E n \in USize : AddX(n)
  \/ \E n \in USize : AddY(n)

SpecAdd == InitAdd /\ [][NextAdd]_vars

\* ------------------------------------------------------ Rect splits (pure)
InitSplit ==
  /\ build \in Builds
  /\ rect \in SplitRects
  /\ lhs = Zero /\ rhs = Zero /\ parts = <<>> /\ rootDims = Zero /\ views = <<>>
  /\ op = NoOp /\ out = Ok(0) /\ calls = <<>>

\* rect.split_verticaly_at(i)
SplitV(i) ==
  /\ op.name = "none"
  /\ op' = [name |-> "split_verticaly_at", i |-> i]
  /\ out' = split_verticaly_at(rect, i)
  /\ UNCHANGED <<build, lhs, rhs, rect, parts, rootDims, views, calls>>

\* rect.split_horizontaly_at(i)
SplitH(i) ==
  /\ op.name = "none"
  /\ op' = [name |-> "split_horizontaly_at", i |-> i]
  /\ out' = split_horizontaly_at(rect, i)
  /\ UNCHANGED <<build, lhs, rhs, rect, parts, rootDims, views, calls>>

NextSplit ==
  \/ \E i \in ISize : SplitV(i)
  \/ \E i \in ISize : SplitH(i)

SpecSplit == InitSplit /\ [][NextSplit]_vars

\* --------------------------------------- Renderer::print on a root backend
InitPrint ==
  /\ build \in Builds
  /\ rootDims \in Coords
  /\ lhs = Zero /\ rhs = Zero /\ rect = ZeroRect /\ parts = <<>> /\ views = <<>>
  /\ op = NoOp /\ out = Ok(0) /\ calls = <<>>

\* backend.print(coord, text, style)
CallPrint(coord, text, style) ==
  LET res == print(views, Len(views), rootDims, coord, text, style)
  IN /\ Idle
     /\ op' = [name |-> "print", coord |-> coord, text |-> text, style |-> style]
     /\ out' = [panic |-> res.panic, val |-> 0]
     /\ calls' = res.calls
     /\ UNCHANGED <<build, lhs, rhs, rect, parts, rootDims, views>>

NextPrint ==
  \/ Idle /\ \E coord \in PrintCoords, text \in Texts, style \in Styles : CallPrint(coord, text, style)
  \/ Return

SpecPrint == InitPrint /\ [][NextPrint]_vars

\* ------------------------------------------------ one View over the backend
Init ==
  /\ build \in Builds
  /\ \E r \in ViewRects : views = to_renderer(r, <<>>)
  /\ rootDims = Coord(MAX, MAX)
  /\ lhs = Zero /\ rhs = Zero /\ rect = ZeroRect /\ parts = <<>>
  /\ op = NoOp /\ out = Ok(0) /\ calls = <<>>

\* view.put(coord, ch, style)
Put(coord, ch, style) ==
  LET res == put(views, Len(views), coord, ch, style)
  IN /\ Idle
     /\ op' = [name |-> "put", coord |-> coord, ch |-> ch, style |-> style]
     /\ out' = [panic |-> res.panic, val |-> 0]
     /\ calls' = res.calls
     /\ UNCHANGED <<build, lhs, rhs, rect, parts, rootDims, views>>

\* view.set_cursor(c)
SetCursor(c) ==
  LET res == set_cursor(views, Len(views), c)
  IN /\ Idle
     /\ op' = [name |-> "set_cursor", coord |-> c]
     /\ out' = [panic |-> res.panic, val |-> 0]
     /\ calls' = res.calls
     /\ UNCHANGED <<build, lhs, rhs, rect, parts, rootDims, views>>

Next ==
  \/ Idle /\ \E coord \in ValCoords, ch \in Chars, style \in Styles : Put(coord, ch, style)
  \/ Idle /\ \E coord \in ValCoords : SetCursor(Some(coord))
  \/ SetCursor(None)
  \/ Return

Spec == Init /\ [][Next]_vars

\* ------------------------------------------------- chains of nested views
InitNested ==
  /\ build \in Builds
  /\ views \in Chains
  /\ rootDims = Coord(MAX, MAX)
  /\ lhs = Zero /\ rhs = Zero /\ rect = ZeroRect /\ parts = <<>>
  /\ op = NoOp /\ out = Ok(0) /\ calls = <<>>

NextNested ==
  \/ Idle /\ \E coord \in NestCoords, ch \in Chars : Put(coord, ch, DefaultStyle)
  \/ Idle /\ \E coord \in NestCoords, text \in Texts : CallPrint(coord, text, DefaultStyle)
  \/ Return

SpecNested == InitNested /\ [][NextNested]_vars

\* ------------------------------ sibling views over the parts of a split
InitSiblings ==
  /\ build \in Builds
  /\ rootDims \in RootDims
  /\ rect = dimensions_rect(rootDims)
  /\ parts = <<>>
  /\ lhs = Zero /\ rhs = Zero /\ views = <<>>
  /\ op = NoOp /\ out = Ok(0) /\ calls = <<>>

Split(res) ==
  /\ Idle
  /\ op' = NoOp
  /\ out' = [panic |-> res.panic, val |-> 0]
  /\ parts' = IF res.panic THEN <<>> ELSE res.val
  /\ calls' = <<>>
  /\ UNCHANGED <<build, lhs, rhs, rect, rootDims, views>>

\* let (a, b) = rect.split_verticaly_at(i)
SiblingsSplitV(i) == Split(split_verticaly_at(rect, i))

\* let (a, b) = rect.split_horizontaly_at(i)
SiblingsSplitH(i) == Split(split_horizontaly_at(rect, i))

\* carry on with one of the two parts as the rect to split
Descend(k) ==
  /\ Idle
  /\ parts # <<>>
  /\ rect' = parts[k]
  /\ parts' = <<>>
  /\ UNCHANGED <<build, lhs, rhs, rootDims, views, op, out, calls>>

\* parts[k].to_renderer(&mut backend).put(coord, ch, style)
PutVia(k, coord, ch, style) ==
  LET v == to_renderer(parts[k], views)
      res == put(v, Len(v), coord, ch, style)
  IN /\ Idle
     /\ parts # <<>>
     /\ op' = [name |-> "put", k |-> k, coord |-> coord, ch |-> ch, style |-> style]
     /\ out' = [panic |-> res.panic, val |-> 0]
     /\ calls' = res.calls
     /\ UNCHANGED <<build, lhs, rhs, rect, parts, rootDims, views>>

\* parts[k].to_renderer(&mut backend).print(coord, text, style)
PrintVia(k, coord, text, style) ==
  LET v == to_renderer(parts[k], views)
      res == print(v, Len(v), rootDims, coord, text, style)
  IN /\ Idle
     /\ parts # <<>>
     /\ op' = [name |-> "print", k |-> k, coord |-> coord, text |-> text, style |-> style]
     /\ out' = [panic |-> res.panic, val |-> 0]
     /\ calls' = res.calls
     /\ UNCHANGED <<build, lhs, rhs, rect, parts, rootDims, views>>

NextSiblings ==
  \/ Idle /\ \E i \in ISize : SiblingsSplitV(i)
  \/ Idle /\ \E i \in ISize : SiblingsSplitH(i)
  \/ Idle /\ \E k \in 1 .. 2 : Descend(k)
  \/ Idle /\ \E k \in 1 .. 2, coord \in SibCoords, ch \in Chars : PutVia(k, coord, ch, DefaultStyle)
  \/ Idle /\ \E k \in 1 .. 2, coord \in SibCoords, text \in Runs : PrintVia(k, coord, text, DefaultStyle)
  \/ Return

SpecSiblings == InitSiblings /\ [][NextSiblings]_vars

\* ================================================================ claims
IsSplitV == op.name = "split_verticaly_at"
IsSplitH == op.name = "split_horizontaly_at"
IsSplit == IsSplitV \/ IsSplitH
\* the rect's dimension and offset on the axis of the split that was called
SplitDim == IF IsSplitV THEN rect.dimensions.x ELSE rect.dimensions.y
SplitOff == IF IsSplitV THEN rect.offset.x ELSE rect.offset.y
First == out.val[1]
Second == out.val[2]

\* the two returned rects partition rect along the split axis at index i
Partitions(i) ==
  /\ out.panic = FALSE
  /\ First.offset = rect.offset
  /\ IF IsSplitV
     THEN /\ First.dimensions.x = i
          /\ Second.offset.x = rect.offset.x + i
          /\ Second.dimensions.x = rect.dimensions.x - i
          /\ First.dimensions.x + Second.dimensions.x = rect.dimensions.x
          /\ Second.offset.y = rect.offset.y
          /\ First.dimensions.y = rect.dimensions.y
          /\ Second.dimensions.y = rect.dimensions.y
     ELSE /\ First.dimensions.y = i
          /\ Second.offset.y = rect.offset.y + i
          /\ Second.dimensions.y = rect.dimensions.y - i
          /\ First.dimensions.y + Second.dimensions.y = rect.dimensions.y
          /\ Second.offset.x = rect.offset.x
          /\ First.dimensions.x = rect.dimensions.x
          /\ Second.dimensions.x = rect.dimensions.x

\* C1 (as stated): for every Rect and every positive index i below the
\* split-axis dimension, both splits return two rects that exactly partition
\* the rect along the split axis at i.
C1_SplitPartitionsEveryRect ==
  (IsSplit /\ op.i > 0 /\ op.i < SplitDim) => Partitions(op.i)

\* C1 (amended): the same, for every Rect whose split-axis offset plus i is
\* representable (does not exceed the maximum of the unsigned type).
C1_SplitPartitions ==
  (IsSplit /\ op.i > 0 /\ op.i < SplitDim /\ SplitOff + op.i <= MAX)
    => Partitions(op.i)

C1_Witness ==
  /\ IsSplitV /\ op.i = 2 /\ rect.dimensions.x = 3 /\ rect.offset.x = 1
  /\ out.panic = FALSE /\ Second.offset.x = 3 /\ Second.dimensions.x = 1

\* C6: a split fails fatally whenever the index is 0, or is positive and not
\* strictly below the split-axis dimension, or is a negative -k with k above
\* the dimension (the resolved index is then not below the dimension); so a
\* rect of split-axis dimension 0 or 1 cannot be split at any positive index.
C6_InvalidSplitPanics ==
  IsSplit =>
    /\ op.i = 0 => out.panic
    /\ (op.i > 0 /\ op.i >= SplitDim) => out.panic
    /\ (op.i < 0 /\ SplitDim + op.i < 0) => out.panic
    /\ (op.i > 0 /\ SplitDim <= 1) => out.panic

C6_Witness ==
  /\ IsSplitH /\ op.i = 2 /\ rect.dimensions.y = 2 /\ rect.offset.y = 0
  /\ out.panic

\* two outcomes of a split agree: both fail, or both return the same rects
SameOutcome(o1, o2) ==
  /\ o1.panic = o2.panic
  /\ o1.panic = FALSE => o1.val = o2.val

\* C7: for 1 <= k < D, splitting at -k gives exactly what splitting at D - k
\* gives, on both axes.
C7_NegativeIndexCountsFromFarEdge ==
  (IsSplit /\ op.i < 0 /\ -op.i < SplitDim /\ SplitDim + op.i <= IMax) =>
    /\ IsSplitV => SameOutcome(out, split_verticaly_at(rect, SplitDim + op.i))
    /\ IsSplitH => SameOutcome(out, split_horizontaly_at(rect, SplitDim + op.i))

\* C9: no split returns a degenerate part: for every signed index a split
\* either fails fatally or returns two rects of split-axis dimension >= 1.
C9_NoDegeneratePart ==
  (IsSplit /\ out.panic = FALSE) =>
    IF IsSplitV
    THEN First.dimensions.x >= 1 /\ Second.dimensions.x >= 1
    ELSE First.dimensions.y >= 1 /\ Second.dimensions.y >= 1

\* component-wise addition saturating at MAX, the `+` of the claims
SatAdd(p, q) == Coord(Min(p.x + q.x, MAX), Min(p.y + q.y, MAX))

\* C5: Coord + Coord is component-wise and saturates at MAX, never wraps and
\* never fails; the same for add_x(n) and add_y(n).
C5_AddSaturates ==
  /\ op.name = "add" => (out.panic = FALSE /\ out.val = SatAdd(lhs, rhs))
  /\ op.name = "add_x" =>
       (out.panic = FALSE /\ out.val = Coord(Min(lhs.x + op.n, MAX), lhs.y))
  /\ op.name = "add_y" =>
       (out.panic = FALSE /\ out.val = Coord(lhs.x, Min(lhs.y + op.n, MAX)))

\* C4: print(coord, text, style) on a renderer of dimensions (W, H) puts the
\* k-th character at (coord.x + k, coord.y) with the given style, in order,
\* and stops at the first coordinate not inside (W, H): min(n, W - coord.x)
\* puts when coord is inside, none otherwise, all on the row of coord.
PrintCount ==
  IF op.coord.y < rootDims.y /\ op.coord.x < rootDims.x
  THEN Min(Len(op.text), rootDims.x - op.coord.x)
  ELSE 0

C4_PrintStopsAtEdge ==
  op.name = "print" =>
    /\ out.panic = FALSE
    /\ Len(calls) = PrintCount
    /\ \A k \in 1 .. Len(calls) :
         calls[k] = PutCall(Coord(op.coord.x + (k - 1), op.coord.y),
                            op.text[k], op.style)

C4_Witness ==
  /\ op.name = "print" /\ Len(op.text) = 2 /\ op.text[1] # op.text[2]
  /\ op.coord = Coord(1, 0) /\ rootDims = Coord(2, 1)
  /\ Len(calls) = 1 /\ calls[1].coord = Coord(1, 0) /\ calls[1].ch = op.text[1]

\* C2: View::put with a coordinate inside rect.dimensions issues exactly one
\* put to the backend, at coord + rect.offset with the same ch and style;
\* otherwise it makes no call on the backend and returns normally.
C2_ViewPutTranslatesOrDrops ==
  (op.name = "put" /\ Len(views) = 1) =>
    IF op.coord.x < views[1].dimensions.x /\ op.coord.y < views[1].dimensions.y
    THEN /\ out.panic = FALSE
         /\ calls = <<PutCall(SatAdd(op.coord, views[1].offset), op.ch, op.style)>>
    ELSE /\ out.panic = FALSE
         /\ calls = <<>>

\* C8: View::set_cursor forwards exactly one set_cursor to the backend for
\* every call: None unmodified, Some(c) as Some(c + rect.offset), for every c.
C8_SetCursorForwards ==
  (op.name = "set_cursor" /\ Len(views) = 1) =>
    /\ out.panic = FALSE
    /\ IF op.coord.some
       THEN calls = <<CursorCall(Some(SatAdd(op.coord.val, views[1].offset)))>>
       ELSE calls = <<CursorCall(None)>>

\* the sum of the offsets of chain[1 .. j]: the origin of chain[j]'s local
\* frame in the root backend's frame
RECURSIVE OriginOf(_, _)
OriginOf(chain, j) ==
  IF j = 0 THEN Coord(0, 0)
  ELSE LET o == OriginOf(chain, j - 1)
       IN Coord(o.x + chain[j].offset.x, o.y + chain[j].offset.y)

\* the root cell lies inside view j of the chain
InsideAncestor(cell, chain, j) ==
  LET o == OriginOf(chain, j)
  IN /\ o.x <= cell.x /\ cell.x - o.x < chain[j].dimensions.x
     /\ o.y <= cell.y /\ cell.y - o.y < chain[j].dimensions.y

\* C3: every put that reaches the root backend from a put or print on a
\* chain of nested views lies inside the bounds of every view of the chain.
C3_NestedViewsClip ==
  op.name \in {"put", "print"} =>
    \A n \in 1 .. Len(calls) : \A j \in 1 .. Len(views) :
      InsideAncestor(calls[n].coord, views, j)

\* the backend cell lies inside the placed rect
InsideRect(cell, r) ==
  /\ r.offset.x <= cell.x /\ cell.x < r.offset.x + r.dimensions.x
  /\ r.offset.y <= cell.y /\ cell.y < r.offset.y + r.dimensions.y

\* the backend cells a view over parts[k] can write: the coordinates of the
\* backend puts that its put makes, over all local coordinates
Writable(k) ==
  LET v == to_renderer(parts[k], views)
      reached(c) == put(v, Len(v), c, "a", DefaultStyle).calls
  IN {reached(c)[1].coord : c \in {c \in Coords : Len(reached(c)) = 1}}

\* C10: through the views over the two parts (a, b) of a successful split
\* of the backend's dimensions_rect (or of a rect split off it), every cell
\* written through a view lies inside that view's part, no cell is writable
\* through both views, and every cell of the split rect is writable through
\* one of them.
C10_SiblingsDoNotInterfere ==
  /\ (op.name \in {"put", "print"} /\ parts # <<>>) =>
       \A n \in 1 .. Len(calls) : InsideRect(calls[n].coord, parts[op.k])
  /\ (op.name = "none" /\ parts # <<>>) =>
       LET wa == Writable(1)
           wb == Writable(2)
       IN /\ wa \cap wb = {}
          /\ \A cell \in wa : InsideRect(cell, parts[1])
          /\ \A cell \in wb : InsideRect(cell, parts[2])
          /\ \A cell \in Coords : InsideRect(cell, rect) => cell \in wa \cup wb

C10_Witness ==
  /\ op.name = "print" /\ op.k = 2 /\ Len(op.text) = 2
  /\ rect = Rect(Coord(1, 0), Coord(2, 3))
  /\ parts = <<Rect(Coord(1, 0), Coord(2, 1)), Rect(Coord(1, 1), Coord(2, 2))>>
  /\ op.coord = Coord(1, 1)
  /\ Len(calls) = 1 /\ calls[1].coord = Coord(2, 2)

====
